---- MODULE Spec2Model ----
(***************************************************************************)
(* The block-indexed checkpoint store of the rollup validator              *)
(* (package checkpointing, RollupCheckpointerImpl).  The key-value         *)
(* database rcp.st is the variable st; every method of the checkpointer    *)
(* is an operator from a database to a database, and every public          *)
(* operation is one action.                                                *)
(***************************************************************************)
EXTENDS Integers, Sequences, FiniteSets, TLC

\* ------------------------------------------------------------------ bounds
MaxHeight == 3
MaxSaves == 3
MaxQueue == 3
\* the longest delete queue gc_tick is applied to in SpecGc
MaxGcLen == 21
\* the jobs submitted to the async writer in the call-by-call behaviours
MaxJobs == 2

\* ------------------------------------------------------------------ values
Heights == 1..MaxHeight
Hashes == {"a", "b"}
BlockIds == [height : Heights, hash : Hashes]
\* a nil *BlockIdBuf (a field absent from a decoded record)
NilId == [height |-> 0, hash |-> "nil"]
ValueHashes == {"v1", "v2"}
MachineHashes == {"m1"}
\* what the validator hands to save_async for a block: its serialized state at
\* that block (a function of the block) and the hashes of the values and
\* machines its CheckpointContext holds; blocks share the value "v1"
Payload(id) ==
    [ contents |-> <<id.height, id.hash>>,
      values   |-> IF id.hash = "a" THEN {"v1"} ELSE {"v1", "v2"},
      machines |-> IF id.hash = "a" THEN {} ELSE {"m1"} ]
\* what GetData returns for a key that is not in the database
NoData == <<>>
NoMetadata == [present |-> FALSE, oldest |-> NilId, newest |-> NilId]
NoLinks == [present |-> FALSE, prev |-> NilId, next |-> NilId]
NoManifest == [present |-> FALSE, values |-> {}, machines |-> {}]
\* the answers of the chain client: the canonical header hash at each height
Chains == [Heights -> Hashes]

VARIABLES
    st,         \* the database rcp.st
    pc,         \* "idle", "trimming" (inside the loop of trim_before), "panicked"
    trimH,      \* the argument of the trim_before that is looping, else 0
    restored,   \* what the latest restore_latest passed to its callback
    numSaves,   \* history: the number of saves so far
    everQueued, \* history: the checkpoints ever appended to the delete queue
                \* (a save of an id that is not waiting there is a new checkpoint)
    track,      \* whether the behaviour records everQueued (SpecHistory)
    chan,       \* the jobs submitted to the async writer that it has not started
    job,        \* the job the writer is running: its calls, and how many it has made
    rec,        \* the locals of a restore_latest that is running in its caller
    signalled   \* the number of the job whose completion was signalled last

vars == <<st, pc, trimH, restored, numSaves, everQueued, track, chan, job, rec, signalled>>

\* the variables of the call-by-call specification SpecSteps
stepvars == <<chan, job, rec, signalled>>

NoJob == [n |-> 0, id |-> NilId, made |-> 0, writes |-> <<>>]
NoRec == [phase |-> "none", metadata |-> NoMetadata, newestId |-> NilId,
          canon |-> <<>>]

EmptyStore ==
    [ metadata  |-> NoMetadata,
      manifest  |-> [id \in BlockIds |-> NoManifest],
      contents  |-> [id \in BlockIds |-> NoData],
      links     |-> [id \in BlockIds |-> NoLinks],
      deadqueue |-> <<>>,
      values    |-> [h \in ValueHashes |-> 0],
      machines  |-> [h \in MachineHashes |-> 0] ]

\* ------------------------------------------------------- storage adapter
\* reference-counted subobject stores: save inserts or increments,
\* delete decrements and removes at zero
SaveValue(s, h) ==
    [s EXCEPT !.values[h] = @ + 1]

DeleteValue(s, h) ==
    [s EXCEPT !.values[h] = IF @ > 0 THEN @ - 1 ELSE 0]

MachineCheckpoint(s, h) ==
    [s EXCEPT !.machines[h] = @ + 1]

DeleteCheckpoint(s, h) ==
    [s EXCEPT !.machines[h] = IF @ > 0 THEN @ - 1 ELSE 0]

GetValue(s, h) ==
    s.values[h] > 0

GetMachine(s, h) ==
    s.machines[h] > 0

RECURSIVE ForEach(_, _, _)
\* a for/range loop over a set of hashes applying Op(s, h) to the database
ForEach(Op(_, _), s, hs) ==
    IF hs = {} THEN s
    ELSE LET h == CHOOSE x \in hs : TRUE
         IN ForEach(Op, Op(s, h), hs \ {h})

\* ---------------------------------------------------------- checkpointer
SaveMetadata(s, m) ==
    [s EXCEPT !.metadata = [m EXCEPT !.present = TRUE]]

RestoreMetadata(s) ==
    s.metadata

\* DeleteMetadata whose delete does not reach the database
DeleteMetadata_Kept(s) ==
    s

DeleteMetadata(s) ==
    [s EXCEPT !.metadata = NoMetadata]

HasCheckpointedState(s) ==
    RestoreMetadata(s).present

_setBothPointers(s, id, prev, next) ==
    [s EXCEPT !.links[id] = [present |-> TRUE, prev |-> prev, next |-> next]]

\* decoding the bytes of a missing key gives a record with nil fields
_updateNextPointer(s, id, next) ==
    [s EXCEPT !.links[id] = [present |-> TRUE, prev |-> @.prev, next |-> next]]

\* SaveCheckpoint without its call of _updateNextPointer
SaveCheckpoint_NoNextPointer(s, blockId, prevBlockId, contents, manifest) ==
    LET s1 == ForEach(SaveValue, s, manifest.values)
        s2 == ForEach(MachineCheckpoint, s1, manifest.machines)
        s3 == [s2 EXCEPT !.manifest[blockId] =
                            [present |-> TRUE, values |-> manifest.values,
                             machines |-> manifest.machines]]
        s4 == [s3 EXCEPT !.contents[blockId] = contents]
    IN _setBothPointers(s4, blockId, prevBlockId, blockId)

\* SaveCheckpoint saving only the values and machines the store lacks
SaveCheckpoint_SkipStored(s, blockId, prevBlockId, contents, manifest) ==
    LET s1 == ForEach(SaveValue, s, {h \in manifest.values : ~GetValue(s, h)})
        s2 == ForEach(MachineCheckpoint, s1,
                      {h \in manifest.machines : ~GetMachine(s, h)})
        s3 == [s2 EXCEPT !.manifest[blockId] =
                            [present |-> TRUE, values |-> manifest.values,
                             machines |-> manifest.machines]]
        s4 == [s3 EXCEPT !.contents[blockId] = contents]
        s5 == _updateNextPointer(s4, prevBlockId, blockId)
    IN _setBothPointers(s5, blockId, prevBlockId, blockId)

SaveCheckpoint(s, blockId, prevBlockId, contents, manifest) ==
    LET s1 == ForEach(SaveValue, s, manifest.values)
        s2 == ForEach(MachineCheckpoint, s1, manifest.machines)
        s3 == [s2 EXCEPT !.manifest[blockId] =
                            [present |-> TRUE, values |-> manifest.values,
                             machines |-> manifest.machines]]
        s4 == [s3 EXCEPT !.contents[blockId] = contents]
        s5 == _updateNextPointer(s4, prevBlockId, blockId)
    IN _setBothPointers(s5, blockId, prevBlockId, blockId)

_saveCheckpoint(s, id, contents, manifest) ==
    LET raw == RestoreMetadata(s)
        fresh == [present |-> TRUE, oldest |-> id, newest |-> id]
        s1 == IF ~raw.present THEN SaveMetadata(s, fresh) ELSE s
        metadataBuf == IF ~raw.present THEN fresh ELSE raw
        newestInCp == metadataBuf.newest
        s2 == SaveCheckpoint(s1, id, newestInCp, contents, manifest)
    IN SaveMetadata(s2, [metadataBuf EXCEPT !.newest = id])

\* QueueCheckpointForDeletion returning before it writes the queue back
QueueCheckpointForDeletion_NotSaved(s, blockId) ==
    s

QueueCheckpointForDeletion(s, blockId) ==
    [s EXCEPT !.deadqueue = Append(@, blockId)]

RECURSIVE ReorgLoop(_, _, _, _, _, _)
\* the loop of QueueReorgedCheckpointsForDeletion and the check of the single
\* checkpoint that remains after it; the chain client fails at query failAt
\* (0: it answers every query).  status: "done", "clienterr", or "panic" when
\* the links of the tip decode to a nil prev, which the loop then dereferences;
\* queries counts the calls of BlockIdForHeight
ReorgLoop(s, metadata, newestId, canon, failAt, query) ==
    IF metadata.oldest.height < newestId.height
    THEN IF query = failAt
         THEN [st |-> s, status |-> "clienterr", queries |-> query]
         ELSE IF canon[newestId.height] = newestId.hash
         THEN [st |-> s, status |-> "done", queries |-> query]
         ELSE LET linksBuf == s.links[newestId]
                  metadata2 == [metadata EXCEPT !.newest = linksBuf.prev]
                  s2 == QueueCheckpointForDeletion(SaveMetadata(s, metadata2), newestId)
              IN IF linksBuf.prev = NilId
                 THEN [st |-> s2, status |-> "panic", queries |-> query]
                 ELSE ReorgLoop(s2, metadata2, linksBuf.prev, canon, failAt, query + 1)
    ELSE IF query = failAt
         THEN [st |-> s, status |-> "clienterr", queries |-> query]
         ELSE IF canon[newestId.height] # newestId.hash
         THEN [st |-> QueueCheckpointForDeletion(DeleteMetadata(s), newestId),
               status |-> "done", queries |-> query]
         ELSE [st |-> s, status |-> "done", queries |-> query]

\* QueueReorgedCheckpointsForDeletion whose loop never runs: only the tip is
\* compared with the chain
QueueReorgedCheckpointsForDeletion_TipOnly(s, canon, failAt) ==
    LET metadata == RestoreMetadata(s)
    IN IF ~metadata.present
       THEN [st |-> s, status |-> "done", queries |-> 0]
       ELSE ReorgLoop(s, [metadata EXCEPT !.oldest = metadata.newest],
                      metadata.newest, canon, failAt, 1)

\* QueueReorgedCheckpointsForDeletion taking a failure of the client for a
\* mismatch of the last checkpoint
QueueReorgedCheckpointsForDeletion_ErrorIsMismatch(s, canon, failAt) ==
    LET metadata == RestoreMetadata(s)
        r == ReorgLoop(s, metadata, metadata.newest, canon, failAt, 1)
    IN IF ~metadata.present
       THEN [st |-> s, status |-> "done", queries |-> 0]
       ELSE IF r.status = "clienterr"
       THEN [r EXCEPT !.st = DeleteMetadata(r.st)]
       ELSE r

QueueReorgedCheckpointsForDeletion(s, canon, failAt) ==
    LET metadata == RestoreMetadata(s)
    IN IF ~metadata.present
       THEN [st |-> s, status |-> "done", queries |-> 0]
       ELSE ReorgLoop(s, metadata, metadata.newest, canon, failAt, 1)

\* [bytes, ctx]: the contents of blockId and the restore context, or nil, nil
\* when the height lies outside the heights of metadata
RestoreCheckpoint(s, blockId) ==
    LET metadataBuf == RestoreMetadata(s)
    IN IF \/ ~metadataBuf.present
          \/ blockId.height < metadataBuf.oldest.height
          \/ blockId.height > metadataBuf.newest.height
       THEN [bytes |-> NoData, ctx |-> FALSE]
       ELSE [bytes |-> s.contents[blockId], ctx |-> TRUE]

\* [st, status, called, bytes, ctx, err]: called says that unmarshalFunc was
\* invoked, with bytes and ctx; err that the method returned an error
RestoreLatestState(s, canon, failAt) ==
    LET r == QueueReorgedCheckpointsForDeletion(s, canon, failAt)
        cp == RestoreCheckpoint(r.st, RestoreMetadata(r.st).newest)
    IN IF r.status = "panic"
       THEN [st |-> r.st, status |-> "panic", called |-> FALSE,
             bytes |-> NoData, ctx |-> FALSE, err |-> FALSE]
       ELSE IF ~HasCheckpointedState(r.st)
       THEN [st |-> r.st, status |-> r.status, called |-> FALSE,
             bytes |-> NoData, ctx |-> FALSE, err |-> TRUE]
       ELSE [st |-> r.st, status |-> r.status, called |-> TRUE,
             bytes |-> cp.bytes, ctx |-> cp.ctx, err |-> FALSE]

\* one pass of the for loop of QueueOldCheckpointsForDeletion: status is
\* "returned", "again" (the candidate was enqueued and the loop goes on) or
\* "panic" (metadata or the links of the candidate decode to nil fields)
TrimPass(s, earliestRollbackPoint) ==
    LET metadataBuf == RestoreMetadata(s)
        candidateId == metadataBuf.oldest
        links == IF candidateId \in BlockIds THEN s.links[candidateId] ELSE NoLinks
    IN IF ~metadataBuf.present \/ links.next = NilId
       THEN [st |-> s, status |-> "panic"]
       ELSE IF links.next.height >= earliestRollbackPoint
       THEN [st |-> s, status |-> "returned"]
       ELSE [st |-> QueueCheckpointForDeletion(s, candidateId), status |-> "again"]

DeleteOneOldCheckpoint(s, blockId) ==
    LET manifestBuf == s.manifest[blockId]
        s1 == [s EXCEPT !.manifest[blockId] = NoManifest]
        s2 == ForEach(DeleteValue, s1, manifestBuf.values)
        s3 == ForEach(DeleteCheckpoint, s2, manifestBuf.machines)
        s4 == [s3 EXCEPT !.contents[blockId] = NoData]
    IN IF ~manifestBuf.present
       THEN s
       ELSE [s4 EXCEPT !.links[blockId] = NoLinks]

RECURSIVE DeleteFromQueue(_, _)
\* the for loop of deleteSomeOldCheckpoints on its local copy of the queue
DeleteFromQueue(s, numToDelete) ==
    IF numToDelete = 0
    THEN s
    ELSE DeleteFromQueue(
            [DeleteOneOldCheckpoint(s, Head(s.deadqueue)) EXCEPT
                !.deadqueue = Tail(s.deadqueue)],
            numToDelete - 1)

\* deleteSomeOldCheckpoints rounding the tenth of the queue up
NumToDelete_RoundedUp(numInQueue) ==
    (numInQueue + 9) \div 10

NumToDelete(numInQueue) ==
    IF numInQueue \div 10 = 0 /\ numInQueue > 0 THEN 1 ELSE numInQueue \div 10

deleteSomeOldCheckpoints(s) ==
    DeleteFromQueue(s, NumToDelete(Len(s.deadqueue)))

\* ------------------------------------------------- calls of the database
\* one call that changes the database: op names the method, the other fields
\* are its arguments
NoWrite ==
    [op |-> "none", id |-> NilId, other |-> NilId, h |-> "", m |-> NoMetadata,
     manifest |-> NoManifest, contents |-> NoData]

ApplyWrite(s, w) ==
    CASE w.op = "SaveMetadata" -> SaveMetadata(s, w.m)
      [] w.op = "SaveValue" -> SaveValue(s, w.h)
      [] w.op = "MachineCheckpoint" -> MachineCheckpoint(s, w.h)
      [] w.op = "SaveManifest" ->
            [s EXCEPT !.manifest[w.id] =
                         [present |-> TRUE, values |-> w.manifest.values,
                          machines |-> w.manifest.machines]]
      [] w.op = "SaveContents" -> [s EXCEPT !.contents[w.id] = w.contents]
      [] w.op = "_updateNextPointer" -> _updateNextPointer(s, w.id, w.other)
      [] w.op = "_setBothPointers" -> _setBothPointers(s, w.id, w.other, w.id)
      [] w.op = "DeleteManifest" -> [s EXCEPT !.manifest[w.id] = NoManifest]
      [] w.op = "DeleteValue" -> DeleteValue(s, w.h)
      [] w.op = "DeleteCheckpoint" -> DeleteCheckpoint(s, w.h)
      [] w.op = "DeleteContents" -> [s EXCEPT !.contents[w.id] = NoData]
      [] w.op = "DeleteLinks" -> [s EXCEPT !.links[w.id] = NoLinks]
      [] w.op = "DeleteMetadata" -> DeleteMetadata(s)
      [] w.op = "QueueCheckpointForDeletion" -> QueueCheckpointForDeletion(s, w.id)
      [] OTHER -> s

RECURSIVE ApplyWrites(_, _)
ApplyWrites(s, ws) ==
    IF ws = <<>> THEN s ELSE ApplyWrites(ApplyWrite(s, Head(ws)), Tail(ws))

RECURSIVE SeqOf(_)
\* the hashes of hs in the order a range loop visits them
SeqOf(hs) ==
    IF hs = {} THEN <<>>
    ELSE LET h == CHOOSE x \in hs : TRUE
         IN <<h>> \o SeqOf(hs \ {h})

\* the calls of _saveCheckpoint, SaveCheckpoint included, in the order of the
\* code, when RestoreMetadata returned raw
_saveCheckpointWrites(raw, id, contents, manifest) ==
    LET fresh == [present |-> TRUE, oldest |-> id, newest |-> id]
        metadataBuf == IF ~raw.present THEN fresh ELSE raw
        newestInCp == metadataBuf.newest
        vs == SeqOf(manifest.values)
        ms == SeqOf(manifest.machines)
    IN (IF ~raw.present
        THEN <<[NoWrite EXCEPT !.op = "SaveMetadata", !.m = fresh]>>
        ELSE <<>>)
       \o [i \in 1..Len(vs) |-> [NoWrite EXCEPT !.op = "SaveValue", !.h = vs[i]]]
       \o [i \in 1..Len(ms) |-> [NoWrite EXCEPT !.op = "MachineCheckpoint", !.h = ms[i]]]
       \o << [NoWrite EXCEPT !.op = "SaveManifest", !.id = id, !.manifest = manifest],
              [NoWrite EXCEPT !.op = "SaveContents", !.id = id, !.contents = contents],
              [NoWrite EXCEPT !.op = "_updateNextPointer", !.id = newestInCp, !.other = id],
              [NoWrite EXCEPT !.op = "_setBothPointers", !.id = id, !.other = newestInCp],
              [NoWrite EXCEPT !.op = "SaveMetadata",
                              !.m = [metadataBuf EXCEPT !.newest = id]] >>

\* the calls of DeleteOneOldCheckpoint in the order of the code
DeleteOneOldCheckpointWrites(s, blockId) ==
    LET manifestBuf == s.manifest[blockId]
        vs == SeqOf(manifestBuf.values)
        ms == SeqOf(manifestBuf.machines)
    IN IF ~manifestBuf.present
       THEN <<>>
       ELSE <<[NoWrite EXCEPT !.op = "DeleteManifest", !.id = blockId]>>
            \o [i \in 1..Len(vs) |-> [NoWrite EXCEPT !.op = "DeleteValue", !.h = vs[i]]]
            \o [i \in 1..Len(ms) |-> [NoWrite EXCEPT !.op = "DeleteCheckpoint", !.h = ms[i]]]
            \o << [NoWrite EXCEPT !.op = "DeleteContents", !.id = blockId],
                   [NoWrite EXCEPT !.op = "DeleteLinks", !.id = blockId] >>

\* ------------------------------------------------------------------ model
QueueIds(s) ==
    {s.deadqueue[i] : i \in 1..Len(s.deadqueue)}

\* the heights of the ids a database names: the tip, and the prev pointer of
\* every links record
NamedHeights(s) ==
    ({s.metadata.newest.height} \cup {s.links[id].prev.height : id \in BlockIds})
        \cap Heights

\* the answers the chain client can give that reconciliation can tell apart:
\* it asks only for heights of ids the database names, so the canonical hash
\* at every other height is fixed
ChainsSeenBy(s) ==
    LET hs == NamedHeights(s)
    IN {[h \in Heights |-> IF h \in hs THEN c[h] ELSE "a"] : c \in [hs -> Hashes]}

\* the queries reconciliation makes of a chain client that answers them all:
\* a failure of the client at a later query is no failure
NumQueries(s, canon) ==
    IF pc = "idle" THEN QueueReorgedCheckpointsForDeletion(s, canon, 0).queries ELSE 0

\* everQueued once the database has become s
Enqueued(s) ==
    IF track THEN everQueued \cup QueueIds(s) ELSE everQueued

\* restored when restore_latest has not invoked the callback
NotCalled ==
    [called |-> FALSE, bytes |-> NoData, ctx |-> FALSE]

Init ==
    /\ st = EmptyStore
    /\ pc = "idle"
    /\ trimH = 0
    /\ restored = NotCalled
    /\ numSaves = 0
    /\ everQueued = {}
    /\ track = FALSE
    /\ chan = <<>>
    /\ job = NoJob
    /\ rec = NoRec
    /\ signalled = 0

InitHistory ==
    /\ st = EmptyStore
    /\ pc = "idle"
    /\ trimH = 0
    /\ restored = NotCalled
    /\ numSaves = 0
    /\ everQueued = {}
    /\ track = TRUE
    /\ chan = <<>>
    /\ job = NoJob
    /\ rec = NoRec
    /\ signalled = 0

\* save_async and the writer's run of its job; the validator checkpoints
\* blocks of increasing height
AsyncSaveCheckpoint(blockId) ==
    /\ pc = "idle"
    /\ numSaves < MaxSaves
    /\ st.metadata.present => st.metadata.newest.height < blockId.height
    /\ st' = _saveCheckpoint(st, blockId, Payload(blockId).contents, Payload(blockId))
    /\ restored' = NotCalled
    /\ numSaves' = numSaves + 1
    /\ everQueued' = IF track
                     THEN (everQueued \ {blockId}) \cup QueueIds(st)
                     ELSE everQueued
    /\ UNCHANGED <<pc, trimH, track>>
    /\ UNCHANGED stepvars

\* restore_latest: reconciliation with the chain, then the callback
RestoreLatest(canon, failAt) ==
    /\ pc = "idle"
    /\ LET r == RestoreLatestState(st, canon, failAt)
       IN /\ st' = r.st
          /\ pc' = IF r.status = "panic" THEN "panicked" ELSE "idle"
          /\ restored' = [called |-> r.called, bytes |-> r.bytes, ctx |-> r.ctx]
          /\ everQueued' = Enqueued(r.st)
    /\ UNCHANGED <<trimH, numSaves, track>>
    /\ UNCHANGED stepvars

\* trim_before(h): the handler up to its return or to the end of its first pass
QueueOldCheckpointsForDeletion(h) ==
    /\ pc = "idle"
    /\ LET r == TrimPass(st, h)
       IN /\ st' = r.st
          /\ pc' = CASE r.status = "panic" -> "panicked"
                     [] r.status = "again" -> "trimming"
                     [] OTHER -> "idle"
          /\ trimH' = IF r.status = "again" THEN h ELSE 0
          /\ everQueued' = Enqueued(r.st)
    /\ restored' = NotCalled
    /\ UNCHANGED <<numSaves, track>>
    /\ UNCHANGED stepvars

\* the next pass of the loop of a trim_before that has not returned
TrimLoop ==
    /\ pc = "trimming"
    /\ Len(st.deadqueue) < MaxQueue
    /\ LET r == TrimPass(st, trimH)
       IN /\ st' = r.st
          /\ pc' = CASE r.status = "panic" -> "panicked"
                     [] r.status = "again" -> "trimming"
                     [] OTHER -> "idle"
          /\ trimH' = IF r.status = "again" THEN trimH ELSE 0
          /\ everQueued' = Enqueued(r.st)
    /\ UNCHANGED <<restored, numSaves, track>>
    /\ UNCHANGED stepvars

\* gc_tick
GcTick ==
    /\ pc = "idle"
    /\ st' = deleteSomeOldCheckpoints(st)
    /\ restored' = NotCalled
    /\ UNCHANGED <<pc, trimH, numSaves, everQueued, track>>
    /\ UNCHANGED stepvars

Next ==
    \/ \E id \in BlockIds : AsyncSaveCheckpoint(id)
    \/ \E canon \in ChainsSeenBy(st) :
          \E failAt \in 0..NumQueries(st, canon) : RestoreLatest(canon, failAt)
    \/ \E h \in 1..(MaxHeight + 1) : QueueOldCheckpointsForDeletion(h)
    \/ TrimLoop
    \/ GcTick

Spec == Init /\ [][Next]_vars

\* the same program, with the history of the delete queue recorded
SpecHistory == InitHistory /\ [][Next]_vars

\* ------------------------------------------------- gc_tick on long queues
\* the i-th block id of an enumeration of BlockIds that repeats
IdAt(i) ==
    [height |-> (i % MaxHeight) + 1,
     hash   |-> IF (i \div MaxHeight) % 2 = 0 THEN "a" ELSE "b"]

\* the database after n rounds of: save of the next block id, IdAt(i + k) in
\* round i, into a store without metadata, then a restore_latest that finds it
\* not canonical (lines 389-392: metadata deleted, the id appended to the
\* delete queue).  Every save links the id to itself and takes one more
\* reference to each value and machine of its manifest.
SavedAndOrphaned(n, k) ==
    LET ids == {IdAt(i + k) : i \in 1..n}
    IN [ metadata  |-> NoMetadata,
         manifest  |-> [id \in BlockIds |->
                          IF id \in ids
                          THEN [present |-> TRUE, values |-> Payload(id).values,
                                machines |-> Payload(id).machines]
                          ELSE NoManifest],
         contents  |-> [id \in BlockIds |->
                          IF id \in ids THEN Payload(id).contents ELSE NoData],
         links     |-> [id \in BlockIds |->
                          IF id \in ids
                          THEN [present |-> TRUE, prev |-> id, next |-> id]
                          ELSE NoLinks],
         deadqueue |-> [i \in 1..n |-> IdAt(i + k)],
         values    |-> [h \in ValueHashes |->
                          Cardinality({i \in 1..n : h \in Payload(IdAt(i + k)).values})],
         machines  |-> [h \in MachineHashes |->
                          Cardinality({i \in 1..n : h \in Payload(IdAt(i + k)).machines})] ]

InitGc ==
    /\ st \in {SavedAndOrphaned(n, k) : n \in 0..MaxGcLen, k \in 0..(2 * MaxHeight - 1)}
    /\ pc = "idle"
    /\ trimH = 0
    /\ restored = NotCalled
    /\ numSaves = 0
    /\ everQueued = {}
    /\ track = FALSE
    /\ chan = <<>>
    /\ job = NoJob
    /\ rec = NoRec
    /\ signalled = 0

NextGc ==
    GcTick

\* gc_tick applied to delete queues of every length up to MaxGcLen
SpecGc == InitGc /\ [][NextGc]_vars

\* ---------------------------------------- the program, call by call
\* the block the validator checkpointed last: the one it submitted last, or
\* the tip of the database
LastSubmitted ==
    IF chan # <<>> THEN chan[Len(chan)].id
    ELSE IF job # NoJob THEN job.id
    ELSE st.metadata.newest

\* save_async: the job is handed to the async writer; the validator
\* checkpoints blocks of increasing height
SubmitJob(blockId) ==
    /\ pc = "idle"
    /\ numSaves < MaxJobs
    /\ LastSubmitted.height < blockId.height
    /\ chan' = Append(chan, [n |-> numSaves + 1, id |-> blockId])
    /\ numSaves' = numSaves + 1
    /\ UNCHANGED <<st, pc, trimH, restored, everQueued, track, job, rec, signalled>>

\* the writer takes the oldest job of the channel and over-runs its first
\* statement, the read of metadata
WriterTake_Newest ==
    /\ pc = "idle"
    /\ job = NoJob
    /\ chan # <<>>
    /\ LET j == chan[Len(chan)]
       IN job' = [n |-> j.n, id |-> j.id, made |-> 0,
                  writes |-> _saveCheckpointWrites(RestoreMetadata(st), j.id,
                                Payload(j.id).contents, Payload(j.id))]
    /\ chan' = SubSeq(chan, 1, Len(chan) - 1)
    /\ UNCHANGED <<st, pc, trimH, restored, numSaves, everQueued, track, rec, signalled>>

\* the writer takes the oldest job of the channel and runs its first
\* statement, the read of metadata
WriterTake ==
    /\ pc = "idle"
    /\ job = NoJob
    /\ chan # <<>>
    /\ LET j == Head(chan)
       IN job' = [n |-> j.n, id |-> j.id, made |-> 0,
                  writes |-> _saveCheckpointWrites(RestoreMetadata(st), j.id,
                                Payload(j.id).contents, Payload(j.id))]
    /\ chan' = Tail(chan)
    /\ UNCHANGED <<st, pc, trimH, restored, numSaves, everQueued, track, rec, signalled>>

\* the next call of the running job
WriterWrite ==
    /\ pc = "idle"
    /\ job # NoJob
    /\ job.made < Len(job.writes)
    /\ st' = ApplyWrite(st, job.writes[job.made + 1])
    /\ job' = [job EXCEPT !.made = @ + 1]
    /\ UNCHANGED <<pc, trimH, restored, numSaves, everQueued, track, chan, rec, signalled>>

\* the job has returned: the writer signals its completion
WriterSignal ==
    /\ pc = "idle"
    /\ job # NoJob
    /\ job.made = Len(job.writes)
    /\ job' = NoJob
    /\ signalled' = job.n
    /\ UNCHANGED <<st, pc, trimH, restored, numSaves, everQueued, track, chan, rec>>

\* restore_latest begins in its caller: QueueReorgedCheckpointsForDeletion
\* reads metadata; the node restores until it has its state
ReconcileStart(canon) ==
    /\ pc = "idle"
    /\ rec = NoRec
    /\ ~restored.called
    /\ LET metadata == RestoreMetadata(st)
       IN rec' = IF ~metadata.present
                 THEN [NoRec EXCEPT !.phase = "read"]
                 ELSE [phase |-> "loop", metadata |-> metadata,
                       newestId |-> metadata.newest, canon |-> canon]
    /\ UNCHANGED <<st, pc, trimH, restored, numSaves, everQueued, track, chan, job, signalled>>

\* the calls one iteration of the loop of QueueReorgedCheckpointsForDeletion,
\* or the check that follows the loop, makes on the database s with the
\* locals r, and the locals it leaves; fail: the chain client fails
ReorgIteration(s, r, fail) ==
    LET linksBuf == IF r.newestId \in BlockIds THEN s.links[r.newestId] ELSE NoLinks
        metadata2 == [r.metadata EXCEPT !.newest = linksBuf.prev]
        inLoop == r.metadata.oldest.height < r.newestId.height
        matches == r.canon[r.newestId.height] = r.newestId.hash
    IN IF fail \/ matches
       THEN [writes |-> <<>>, rec |-> [NoRec EXCEPT !.phase = "read"]]
       ELSE IF inLoop
       THEN [writes |-> << [NoWrite EXCEPT !.op = "SaveMetadata", !.m = metadata2],
                           [NoWrite EXCEPT !.op = "QueueCheckpointForDeletion",
                                           !.id = r.newestId] >>,
             rec |-> IF linksBuf.prev = NilId
                     THEN [NoRec EXCEPT !.phase = "panic"]
                     ELSE [r EXCEPT !.metadata = metadata2, !.newestId = linksBuf.prev]]
       ELSE [writes |-> << [NoWrite EXCEPT !.op = "DeleteMetadata"],
                           [NoWrite EXCEPT !.op = "QueueCheckpointForDeletion",
                                           !.id = r.newestId] >>,
             rec |-> [NoRec EXCEPT !.phase = "read"]]

\* one iteration of the reconciliation of a running restore_latest
ReconcileStep(fail) ==
    /\ pc = "idle"
    /\ rec.phase = "loop"
    /\ LET it == ReorgIteration(st, rec, fail)
       IN /\ st' = ApplyWrites(st, it.writes)
          /\ rec' = IF it.rec.phase = "panic" THEN NoRec ELSE it.rec
          /\ pc' = IF it.rec.phase = "panic" THEN "panicked" ELSE "idle"
    /\ UNCHANGED <<trimH, restored, numSaves, everQueued, track, chan, job, signalled>>

\* the rest of restore_latest: the check of has_state, the read of the
\* newest checkpoint and the callback
RestoreRead ==
    /\ pc = "idle"
    /\ rec.phase = "read"
    /\ LET cp == RestoreCheckpoint(st, RestoreMetadata(st).newest)
       IN restored' = IF ~HasCheckpointedState(st)
                      THEN NotCalled
                      ELSE [called |-> TRUE, bytes |-> cp.bytes, ctx |-> cp.ctx]
    /\ rec' = NoRec
    /\ UNCHANGED <<st, pc, trimH, numSaves, everQueued, track, chan, job, signalled>>

NextSteps ==
    \/ \E id \in BlockIds : SubmitJob(id)
    \/ WriterTake
    \/ WriterWrite
    \/ WriterSignal
    \/ \E canon \in ChainsSeenBy(st) : ReconcileStart(canon)
    \/ \E fail \in BOOLEAN : ReconcileStep(fail)
    \/ RestoreRead

\* the program with every call of the database a step of its own
SpecSteps == Init /\ [][NextSteps]_vars

\* ----------------------------------------------------------- the chain
RECURSIVE WalkNext(_, _, _)
\* the ids met following next from id to the tip of metadata; NilId ends the
\* walk when it leaves the records or takes more steps than there are ids
WalkNext(s, id, fuel) ==
    IF id \notin BlockIds
    THEN <<NilId>>
    ELSE IF id = s.metadata.newest
    THEN <<id>>
    ELSE IF fuel = 0 \/ ~s.links[id].present
    THEN <<id, NilId>>
    ELSE <<id>> \o WalkNext(s, s.links[id].next, fuel - 1)

RECURSIVE WalkPrev(_, _, _)
\* the ids met following prev from id to the oldest of metadata
WalkPrev(s, id, fuel) ==
    IF id \notin BlockIds
    THEN <<NilId>>
    ELSE IF id = s.metadata.oldest
    THEN <<id>>
    ELSE IF fuel = 0 \/ ~s.links[id].present
    THEN <<id, NilId>>
    ELSE <<id>> \o WalkPrev(s, s.links[id].prev, fuel - 1)

Range(w) ==
    {w[i] : i \in 1..Len(w)}

\* the checkpoints reachable from metadata
ChainIds(s) ==
    IF s.metadata.present
    THEN (Range(WalkNext(s, s.metadata.oldest, Cardinality(BlockIds)))
            \cup Range(WalkPrev(s, s.metadata.newest, Cardinality(BlockIds))))
         \cap BlockIds
    ELSE {}

RecordExists(s, id) ==
    s.links[id].present /\ s.manifest[id].present /\ s.contents[id] # NoData

\* ------------------------------------------------------------------ C1
\* C1: every save of id I into a store whose tip was T leaves metadata.newest
\* = I, links(I).prev = T and links(T).next = I; a save into an empty store
\* leaves metadata.oldest = metadata.newest = I and links(I).prev = I.
SavePost(s, id, t) ==
    /\ t.metadata.present
    /\ t.metadata.newest = id
    /\ IF s.metadata.present
       THEN /\ t.links[id].prev = s.metadata.newest
            /\ t.links[s.metadata.newest].next = id
            /\ t.metadata.oldest = s.metadata.oldest
       ELSE /\ t.metadata.oldest = id
            /\ t.links[id].prev = id

C1_SaveLinksTip ==
    [][\A id \in BlockIds : AsyncSaveCheckpoint(id) => SavePost(st, id, st')]_vars

\* a save has appended a checkpoint to a store that was not empty
C1_Witness ==
    /\ st.metadata.present
    /\ st.metadata.oldest # st.metadata.newest
    /\ st.links[st.metadata.newest].prev = st.metadata.oldest
    /\ st.links[st.metadata.oldest].next = st.metadata.newest
    /\ numSaves = 2
    /\ st.deadqueue = <<>>

\* ------------------------------------------------------------------ C2
\* C2: whenever metadata exists after completed operations, following next
\* from metadata.oldest reaches metadata.newest, following prev from
\* metadata.newest reaches metadata.oldest, every record on the walk exists
\* and heights strictly increase along next.
ChainWellLinked(s) ==
    LET n == Cardinality(BlockIds)
        wn == WalkNext(s, s.metadata.oldest, n)
        wp == WalkPrev(s, s.metadata.newest, n)
    IN /\ NilId \notin Range(wn)
       /\ NilId \notin Range(wp)
       /\ \A i \in 1..Len(wn) : RecordExists(s, wn[i])
       /\ \A i \in 1..(Len(wn) - 1) : wn[i].height < wn[i + 1].height

C2_ChainWalk ==
    (pc = "idle" /\ st.metadata.present) => ChainWellLinked(st)

C4_RestoreReturnsSaved ==
    restored.called =>
        LET id == st.metadata.newest
        IN /\ restored.bytes = Payload(id).contents
           /\ restored.ctx
           /\ \A h \in Payload(id).values : GetValue(st, h)
           /\ \A h \in Payload(id).machines : GetMachine(st, h)

\* ------------------------------------------------------------------ C5
\* the index in w of the first id whose hash is the canonical one, 0 if none
FirstCanonical(w, canon) ==
    LET I == {i \in 1..Len(w) : w[i] \in BlockIds /\ canon[w[i].height] = w[i].hash}
    IN IF I = {} THEN 0 ELSE CHOOSE i \in I : \A j \in I : i <= j

ReconcilePost(s, canon, t) ==
    IF ~s.metadata.present
    THEN t = s
    ELSE LET w == WalkPrev(s, s.metadata.newest, Cardinality(BlockIds))
             k == FirstCanonical(w, canon)
         IN /\ IF k = 0
               THEN /\ ~t.metadata.present
                    /\ t.deadqueue = s.deadqueue \o w
               ELSE /\ t.metadata = [s.metadata EXCEPT !.newest = w[k]]
                    /\ t.deadqueue = s.deadqueue \o SubSeq(w, 1, k - 1)
            /\ t.links = s.links
            /\ t.manifest = s.manifest
            /\ t.contents = s.contents
            /\ t.values = s.values
            /\ t.machines = s.machines

\* C5: from every database the program reaches and for every answer function
\* of the chain client, a reconciliation (the first half of restore_latest)
\* that runs to completion with every query answered
\* leaves metadata absent (no checkpoint from the tip back to the oldest is
\* canonical) or metadata.newest at the first canonical checkpoint walking
\* prev from the old tip, and appends to the delete queue exactly the
\* checkpoints above it, once each, tip first.
C5_ReconcileToCanonicalTip ==
    pc = "idle" =>
        \A canon \in Chains :
            LET r == QueueReorgedCheckpointsForDeletion(st, canon, 0)
            IN r.status = "done" => ReconcilePost(st, canon, r.st)

\* saves at three heights, of which the reorg has orphaned only the last
C5_Witness ==
    /\ restored.called
    /\ restored.bytes = Payload(st.metadata.newest).contents
    /\ st.metadata.oldest.height = 1
    /\ st.metadata.newest.height = 2
    /\ Len(st.deadqueue) = 1
    /\ st.deadqueue[1].height = 3
    /\ st.links[st.deadqueue[1]].prev = st.metadata.newest

\* ------------------------------------------------------------------ C6
\* C6: after completed operations no id of the delete queue lies on the chain
\* from metadata.oldest to metadata.newest.
C6_QueueDisjointFromChain ==
    (pc = "idle" /\ st.metadata.present) => QueueIds(st) \cap ChainIds(st) = {}

\* ------------------------------------------------------------------ C7
\* C7: every hash in the manifest of a checkpoint reachable from metadata is
\* present in the value or machine store.
C7_LiveManifestResolved ==
    \A id \in ChainIds(st) :
        st.manifest[id].present =>
            /\ \A h \in st.manifest[id].values : GetValue(st, h)
            /\ \A h \in st.manifest[id].machines : GetMachine(st, h)

\* GC has reclaimed an orphan that shared the value v1 with the one checkpoint
\* that is left, which is live
C7_Witness ==
    /\ st.metadata.present
    /\ st.metadata.oldest = st.metadata.newest
    /\ st.manifest[st.metadata.newest].present
    /\ Cardinality({id \in BlockIds : st.manifest[id].present}) = 1
    /\ numSaves >= 2
    /\ st.deadqueue = <<>>
    /\ st.values["v1"] = 1

\* ------------------------------------------------------------------ C10
\* C10: after completed operations links(metadata.newest).next and
\* links(metadata.oldest).prev are the self-link.
C10_SentinelAtEnds ==
    (pc = "idle" /\ st.metadata.present) =>
        /\ st.links[st.metadata.newest].next = st.metadata.newest
        /\ st.links[st.metadata.oldest].prev = st.metadata.oldest

\* ------------------------------------------------------------------ C8
\* the ids outside ids have no manifest that names the value hash h
ValueOnlyOf(s, ids, h) ==
    \A id \in BlockIds \ ids : ~(s.manifest[id].present /\ h \in s.manifest[id].values)

MachineOnlyOf(s, ids, h) ==
    \A id \in BlockIds \ ids :
        ~(s.manifest[id].present /\ h \in s.manifest[id].machines)

\* C8: once gc_tick has emptied the delete queue, no manifest, contents or
\* links key exists for any id ever enqueued, and no value or machine hash
\* referenced only by such ids remains in the subobject stores.
C8_DrainedQueueLeavesNothing ==
    (pc = "idle" /\ st.deadqueue = <<>>) =>
        /\ \A id \in everQueued :
              /\ ~st.manifest[id].present
              /\ st.contents[id] = NoData
              /\ ~st.links[id].present
        /\ \A h \in ValueHashes : ValueOnlyOf(st, everQueued, h) => ~GetValue(st, h)
        /\ \A h \in MachineHashes : MachineOnlyOf(st, everQueued, h) => ~GetMachine(st, h)

\* ------------------------------------------------------------------ C9
\* what trim_before(h) is to leave of the store s it was called on
TrimPost(s, h, t) ==
    /\ \A id \in ChainIds(s) : id.height < h => id \in QueueIds(t)
    /\ t.metadata.present
    /\ t.metadata.oldest \in ChainIds(s)
    /\ t.metadata.oldest.height >= h
    /\ \A id \in ChainIds(s) : id.height >= h => t.metadata.oldest.height <= id.height

\* C9: when trim_before(h) returns on a store whose chain holds a checkpoint
\* at height >= h, every checkpoint of the chain with height < h is in the
\* delete queue and metadata.oldest is the lowest checkpoint with height >= h.
C9_TrimEnqueuesBelow ==
    [][\A h \in 1..(MaxHeight + 1) :
          ( /\ QueueOldCheckpointsForDeletion(h) \/ (TrimLoop /\ trimH = h)
            /\ pc' = "idle"
            /\ \E id \in ChainIds(st) : id.height >= h )
          => TrimPost(st, h, st')]_vars

\* ------------------------------------------------------------------ C11
\* C11: for every answer function of the chain client, a reconciliation that
\* follows a completed reconciliation with the same answers writes nothing:
\* metadata, the delete queue and every record stay as the first run left them.
C11_ReconcileIdempotent ==
    pc = "idle" =>
        \A canon \in ChainsSeenBy(st) :
            LET r1 == QueueReorgedCheckpointsForDeletion(st, canon, 0)
                r2 == QueueReorgedCheckpointsForDeletion(r1.st, canon, 0)
            IN r1.status = "done" => (r2.status = "done" /\ r2.st = r1.st)

\* a store of two checkpoints on which reconciliation has a tip to remove
C11_Witness ==
    /\ pc = "idle"
    /\ st.metadata.present
    /\ st.metadata.oldest # st.metadata.newest
    /\ \E canon \in ChainsSeenBy(st) :
          LET r1 == QueueReorgedCheckpointsForDeletion(st, canon, 0)
          IN /\ r1.status = "done"
             /\ r1.st.metadata.present
             /\ r1.st.metadata.newest # st.metadata.newest
             /\ Len(r1.st.deadqueue) = Len(st.deadqueue) + 1

\* ------------------------------------------------------------------ C12
\* C12: a restore_latest whose reconciliation leaves metadata absent returns
\* an error and does not invoke the callback; when the reconciliation itself
\* removed metadata, the checkpoint it orphaned last is in the delete queue,
\* and if it is the only entry one gc_tick leaves none of its keys.
C12_RestoreErrorWithoutMetadata ==
    pc = "idle" =>
        \A canon \in ChainsSeenBy(st) :
            \A failAt \in 0..NumQueries(st, canon) :
                LET r == RestoreLatestState(st, canon, failAt)
                    q == r.st.deadqueue
                    g == deleteSomeOldCheckpoints(r.st)
                IN (r.status # "panic" /\ ~r.st.metadata.present) =>
                      /\ r.err
                      /\ ~r.called
                      /\ st.metadata.present =>
                            /\ Len(q) > Len(st.deadqueue)
                            /\ Len(q) = 1 =>
                                  /\ g.deadqueue = <<>>
                                  /\ ~g.manifest[q[1]].present
                                  /\ g.contents[q[1]] = NoData
                                  /\ ~g.links[q[1]].present

\* ------------------------------------------------------------------ C20
\* C20 as claimed: a reconciliation that a failure of the chain client aborts
\* leaves metadata, the delete queue and every record as they were when it
\* started.
C20_ClientFailureLeavesStoreUntouched ==
    pc = "idle" =>
        \A canon \in ChainsSeenBy(st) :
            \A failAt \in 1..NumQueries(st, canon) :
                LET r == QueueReorgedCheckpointsForDeletion(st, canon, failAt)
                IN r.status = "clienterr" => r.st = st

\* C20 amended: the failing query writes nothing.  The reconciliation stops
\* with the store as the iterations before it left it: each moved
\* metadata.newest to the predecessor and queued the tip it found not
\* canonical, no record changed; a failure of the first query leaves the
\* store untouched, and a later reconciliation whose queries are answered
\* finishes as an uninterrupted one would have.
C20_ClientFailureKeepsCommittedIterations ==
    pc = "idle" =>
        \A canon \in ChainsSeenBy(st) :
            \A failAt \in 1..NumQueries(st, canon) :
                LET r == QueueReorgedCheckpointsForDeletion(st, canon, failAt)
                    w == WalkPrev(st, st.metadata.newest, Cardinality(BlockIds))
                    whole == QueueReorgedCheckpointsForDeletion(st, canon, 0)
                    retry == QueueReorgedCheckpointsForDeletion(r.st, canon, 0)
                IN r.status = "clienterr" =>
                      /\ failAt = 1 => r.st = st
                      /\ failAt <= Len(w)
                      /\ r.st.metadata = [st.metadata EXCEPT !.newest = w[failAt]]
                      /\ r.st.deadqueue = st.deadqueue \o SubSeq(w, 1, failAt - 1)
                      /\ r.st.links = st.links
                      /\ r.st.manifest = st.manifest
                      /\ r.st.contents = st.contents
                      /\ r.st.values = st.values
                      /\ r.st.machines = st.machines
                      /\ retry = [whole EXCEPT !.queries = retry.queries]

\* a store on which the client can fail after reconciliation removed a tip
C20_Witness ==
    /\ pc = "idle"
    /\ st.metadata.present
    /\ \E canon \in ChainsSeenBy(st) :
          LET r == QueueReorgedCheckpointsForDeletion(st, canon, 2)
          IN /\ r.status = "clienterr"
             /\ r.st.metadata.newest # st.metadata.newest
             /\ Len(r.st.deadqueue) = Len(st.deadqueue) + 1

\* ------------------------------------------------------------------ C18
\* the queue after a gc_tick that removes k entries from the head of q, and
\* the records of the removed entries
GcTickPost(s, k, t) ==
    LET n == Len(s.deadqueue)
    IN /\ k <= n
       /\ t.deadqueue = SubSeq(s.deadqueue, k + 1, n)
       /\ \A i \in 1..k : ~t.manifest[s.deadqueue[i]].present
       /\ n = 0 => t = s

\* C18 as claimed: gc_tick on a delete queue of length len removes exactly
\* max(1, ceil(len/10)) entries from the head when len > 0 and leaves the
\* others in order; on an empty queue it changes nothing.
C18_GcTickRemovesCeilTenth ==
    [][GcTick =>
          LET n == Len(st.deadqueue)
              ceil == (n + 9) \div 10
          IN GcTickPost(st, IF n = 0 THEN 0 ELSE IF ceil > 1 THEN ceil ELSE 1, st')]_vars

\* C18 amended: gc_tick on a delete queue of length len removes exactly
\* max(1, floor(len/10)) entries from the head when len > 0 and leaves the
\* others in order; on an empty queue it changes nothing.
C18_GcTickRemovesFloorTenth ==
    [][GcTick =>
          LET n == Len(st.deadqueue)
              floor == n \div 10
          IN GcTickPost(st, IF n = 0 THEN 0 ELSE IF floor > 1 THEN floor ELSE 1, st')]_vars

\* a gc_tick has removed two entries from a queue of twenty or more
C18_Witness ==
    /\ Len(st.deadqueue) >= 18
    /\ Cardinality({id \in BlockIds : ~st.manifest[id].present}) = 2

\* ------------------------------------------------------------------ C16
\* C16: every iteration of trim_before that enqueues a checkpoint removes the
\* oldest of at least two, persists metadata.oldest <- oldest.next and
\* appends the removed id to the delete queue once; so the loop ends after
\* at most n - 1 iterations on a store of n checkpoints and never enqueues
\* the only one.
C16_TrimIterationAdvancesOldest ==
    [][ ( /\ (\E h \in 1..(MaxHeight + 1) : QueueOldCheckpointsForDeletion(h)) \/ TrimLoop
          /\ st'.deadqueue # st.deadqueue )
        => /\ st.metadata.oldest # st.metadata.newest
           /\ st'.metadata.present
           /\ st'.metadata.oldest = st.links[st.metadata.oldest].next
           /\ st'.deadqueue = Append(st.deadqueue, st.metadata.oldest) ]_vars

\* ------------------------------------------------------------------ C17
\* C17: of the calls gc makes for the entry at the head of the delete queue
\* the deletion of the manifest key is the last; and after a tick that
\* stopped behind any of these calls, before the queue was rewritten, one
\* more gc_tick leaves no manifest, contents or links key of that id and no
\* more references to its values and machines than the whole tick leaves.
C17_GcDeletesManifestLast ==
    (pc = "idle" /\ st.deadqueue # <<>>) =>
        LET id == Head(st.deadqueue)
            ws == DeleteOneOldCheckpointWrites(st, id)
            whole == deleteSomeOldCheckpoints(st)
        IN \A i \in 1..Len(ws) :
              LET crashed == ApplyWrites(st, SubSeq(ws, 1, i))
                  again == deleteSomeOldCheckpoints(crashed)
              IN /\ ws[i].op = "DeleteManifest" => i = Len(ws)
                 /\ ~again.manifest[id].present
                 /\ again.contents[id] = NoData
                 /\ ~again.links[id].present
                 /\ \A h \in ValueHashes : again.values[h] <= whole.values[h]
                 /\ \A h \in MachineHashes : again.machines[h] <= whole.machines[h]
\* ------------------------------------------------- C13: readers and a save
\* the records of the checkpoint id are all in the database s
FullyWritten(s, id) ==
    /\ s.manifest[id].present
    /\ s.contents[id] # NoData
    /\ s.links[id].present
    /\ \A h \in Payload(id).values : GetValue(s, h)
    /\ \A h \in Payload(id).machines : GetMachine(s, h)

\* C13: a reader that runs between two calls of a running save of id never
\* finds metadata naming id as newest while the contents, the manifest or the
\* links of id, or a value or machine of its manifest, is not written yet;
\* the first save into an empty database included.
C13_ReaderSeesCommittedSave ==
    (job # NoJob /\ HasCheckpointedState(st) /\ RestoreMetadata(st).newest = job.id)
        => FullyWritten(st, job.id)

\* ------------------------------------------ C14: who changes the database
\* C14: only the writer task changes the database: every step that changes
\* it is a call of the job the writer is running, so no write of a
\* reconciliation (run by restore_latest) happens in its caller, between the
\* reads and writes of a running save.
C14_OnlyWriterMutates ==
    [][ st' # st => /\ job # NoJob
                    /\ job' = [job EXCEPT !.made = @ + 1]
                    /\ st' = ApplyWrite(st, job.writes[job.made + 1]) ]_vars

\* ------------------------------------------------- C15: the order of jobs
\* C15: of two saves the one submitted first makes all its database calls
\* before the other makes any, and the completion of a job is signalled only
\* after its last call has returned: the job the writer runs is the oldest
\* one not signalled yet, the channel holds the later ones in the order of
\* submission, and a signal is that of the running job with no call left.
C15_JobsInSubmissionOrder ==
    /\ [](/\ job # NoJob => job.n = signalled + 1
          /\ \A i \in 1..Len(chan) :
                chan[i].n = signalled + i + (IF job # NoJob THEN 1 ELSE 0))
    /\ [][ /\ (job # NoJob /\ job' # NoJob) => job'.n = job.n
           /\ signalled' # signalled =>
                 /\ job # NoJob
                 /\ job.made = Len(job.writes)
                 /\ signalled' = job.n
                 /\ st' = st ]_vars

\* the writer has run two jobs to their signals
C15_Witness ==
    /\ signalled >= 2
    /\ job = NoJob
    /\ \E id \in BlockIds : st.metadata.newest = id /\ st.links[id].prev \in BlockIds \ {id}

\* ------------------------------------------- C19: the order of a save
\* the place of a call in the order a save is to follow: values, machines,
\* the records of the checkpoint, the next pointer of the previous newest,
\* metadata
CallRank(w) ==
    CASE w.op = "SaveValue" -> 1
      [] w.op = "MachineCheckpoint" -> 2
      [] w.op \in {"SaveManifest", "SaveContents", "_setBothPointers"} -> 3
      [] w.op = "_updateNextPointer" -> 4
      [] w.op = "SaveMetadata" -> 5
      [] OTHER -> 0

\* the calls the running job has made follow the order
MadeInOrder ==
    \A i, j \in 1..job.made :
        i < j => CallRank(job.writes[i]) <= CallRank(job.writes[j])

\* the next pointer is written for a previous newest other than the job's id
NextPointerOfPrevOnly ==
    \A i \in 1..job.made :
        job.writes[i].op = "_updateNextPointer" => job.writes[i].id # job.id

\* metadata is written by the last call of the job, naming its id as newest
MetadataLast ==
    \A i \in 1..job.made :
        job.writes[i].op = "SaveMetadata" =>
            (i = Len(job.writes) /\ job.writes[i].m.newest = job.id)

\* C19: a save makes its calls in this order: the values, the machines, then
\* the manifest, contents and links of id, then the next pointer of the
\* previous newest (only when that is another checkpoint than id), and last
\* the metadata naming id as newest; no write of metadata precedes the
\* records of id.
C19_SaveWriteOrder ==
    job # NoJob => (MadeInOrder /\ NextPointerOfPrevOnly /\ MetadataLast)

\* -------------------------------------- C21: reconciliation terminates
\* the checkpoints the loop of QueueReorgedCheckpointsForDeletion and the
\* check after it compare with the chain, in order, cut after fuel of them;
\* the loop reads the links of s only, which it does not write
RECURSIVE ReorgVisits(_, _, _, _, _)
ReorgVisits(s, metadata, newestId, canon, fuel) ==
    IF fuel = 0 THEN <<>>
    ELSE IF /\ metadata.oldest.height < newestId.height
            /\ canon[newestId.height] # newestId.hash
            /\ s.links[newestId].prev # NilId
    THEN <<newestId>> \o ReorgVisits(s, metadata, s.links[newestId].prev, canon, fuel - 1)
    ELSE <<newestId>>

\* what one run of reconciliation from s has appended to the delete queue
ReorgAppended(s, canon) ==
    LET q == QueueReorgedCheckpointsForDeletion(s, canon, 0).st.deadqueue
    IN SubSeq(q, Len(s.deadqueue) + 1, Len(q))

\* C21: in every database reached through saves, trims, gc ticks and
\* reconciliations, reconciliation runs to its return for every chain: each
\* iteration of its loop moves metadata.newest to a checkpoint of strictly
\* lower height, so it asks the chain client at most once per checkpoint
\* between oldest and newest, and it appends no id twice to the delete queue
\* in one run.
C21_ReconcileTerminates ==
    (pc = "idle" /\ HasCheckpointedState(st)) =>
        \A canon \in ChainsSeenBy(st) :
            LET r == QueueReorgedCheckpointsForDeletion(st, canon, 0)
                v == ReorgVisits(st, st.metadata, st.metadata.newest, canon,
                                 Cardinality(BlockIds) + 1)
                a == ReorgAppended(st, canon)
            IN /\ r.status = "done"
               /\ \A i \in 1..(Len(v) - 1) : v[i + 1].height < v[i].height
               /\ r.queries = Len(v)
               /\ r.queries <= Cardinality(ChainIds(st))
               /\ \A i, j \in 1..Len(a) : i # j => a[i] # a[j]

====
